---- MODULE Spec2Model ----
(***************************************************************************)
(* A model of src/src/audio/audio.c: the audio subsystem lifecycle         *)
(* (audioInitSubsystem / audioQuitSubsystem) and the clip lifecycle        *)
(* (audioLoadClip / audioPlayClip / audioUnloadClip), together with the    *)
(* parts of the OpenAL and libsndfile backends the code calls through.     *)
(*                                                                         *)
(* Handles are naturals; 0 is NULL / "no name".  Every backend call that   *)
(* can fail takes its outcome as an input chosen by the environment: a     *)
(* fresh handle or 0 for an allocation, a frame count for a read, a flag   *)
(* for an upload.  The calls an operation makes are logged in last.trace,  *)
(* in call order, so that release order is a property of the state.        *)
(***************************************************************************)
EXTENDS Naturals, Integers, Sequences, FiniteSets, TLC

\* ---------------------------------------------------------------- bounds

MaxHandles == 2     \* names the backend can hand out, per kind of handle
MaxClips == 2       \* AudioClip objects the caller owns
MaxFrames == 2      \* largest frame count a header declares
MaxScratch == 2     \* calloc'ed blocks the heap holds before calloc fails

Handles == 1..MaxHandles
Clips == 1..MaxClips

\* ------------------------------------------------- libsndfile / OpenAL

\* Subtype codes of the format field of libsndfile's file info (sndfile.h):
\* the source's SF_FORMAT_PCM_S8, SF_FORMAT_PCM_16, ... without the SF_
\* prefix, which TLA+ reads as strong fairness.
FORMAT_PCM_S8 == 1
FORMAT_PCM_16 == 2
FORMAT_PCM_24 == 3
FORMAT_PCM_U8 == 5
FORMAT_ALAW == 17

\* unsigned int pcm_format_mask = 0xF
pcm_format_mask == 15

\* The value of a variable or field that was never written.
Uninit == "uninit"

VARIABLES
    devices,          \* open ALCdevice handles
    contexts,         \* live ALCcontext handles, each <<context, its device>>
    current,          \* the current context, 0 when none
    global_device,    \* static ALCdevice* global_device
    global_context,   \* static ALCcontext* global_context
    initialized,      \* an audioInitSubsystem has returned success
    buffers,          \* live AL buffer names
    sources,          \* live AL source names (playback voices)
    files,            \* open SNDFILE handles
    scratch,          \* calloc'ed blocks not yet freed
    playing,          \* sources in state AL_PLAYING
    alError,          \* the backend's error flag, read and cleared by alGetError
    global_source,    \* static ALuint global_source
    clip,             \* the caller's AudioClip objects
    loaded,           \* the clips whose last audioLoadClip returned success, not yet unloaded
    voiceOf,          \* the voice created by the load of each loaded clip
    alone,            \* the loaded clips during whose life no other clip was loaded
    play,             \* the position of the running audioPlayClip
    last              \* the last completed call: inputs, result, calls made

vars == <<devices, contexts, current, global_device, global_context, initialized,
          buffers, sources, files, scratch, playing, alError,
          global_source, clip, loaded, voiceOf, alone, play, last>>

subsystemVars ==
    <<devices, contexts, current, global_device, global_context, initialized>>

clipVars == <<buffers, sources, files, scratch, playing, alError,
              global_source, clip, loaded, voiceOf, alone, play>>

\* ------------------------------------------------------ backend state
\* The operations below are functions of a record s holding the backend
\* state, the statics and the caller's clips, and the calls logged so far.

AL_NO_ERROR == "AL_NO_ERROR"

\* The first error raised since the last alGetError is the one kept.
Raise(s, e) == IF s.alError = AL_NO_ERROR THEN [s EXCEPT !.alError = e] ELSE s

Log(s, ev) == [s EXCEPT !.trace = Append(@, ev)]

\* alGetError(): returns s.alError (read by the caller, and logged as what the
\* call returned) and clears the flag.
alGetError(s) == Log([s EXCEPT !.alError = AL_NO_ERROR], <<"alGetError", s.alError>>)

\* alGenBuffers(1, &clip->buffer): nb is the fresh name, 0 when the backend
\* cannot allocate one; then the error is raised and clip->buffer is left alone.
alGenBuffers(s, c, nb) ==
    IF nb = 0
    THEN Raise(Log(s, <<"alGenBuffers", 0>>), "AL_OUT_OF_MEMORY")
    ELSE Log([s EXCEPT !.buffers = @ \cup {nb}, !.clip[c].buffer = nb],
             <<"alGenBuffers", nb>>)

\* alGenSources(1, &global_source)
alGenSources(s, ns) ==
    IF ns = 0
    THEN Raise(Log(s, <<"alGenSources", 0>>), "AL_OUT_OF_MEMORY")
    ELSE Log([s EXCEPT !.sources = @ \cup {ns}, !.global_source = ns],
             <<"alGenSources", ns>>)

\* clip->file = sf_open(clip_file_name, SFM_READ, &clip_file_info): nf is the
\* handle, NULL (0) when the file cannot be opened.
sf_open(s, c, nf) ==
    Log([s EXCEPT !.files = @ \cup (IF nf = 0 THEN {} ELSE {nf}),
                  !.clip[c].file = nf],
        <<"sf_open", nf>>)

\* sf_close(clip->file): closing a handle that is not open is undefined.
sf_close(s, f) ==
    Log([s EXCEPT !.files = @ \ {f}, !.ub = @ \/ f \notin s.files],
        <<"sf_close", f>>)

\* alDeleteSources(1, &global_source): an invalid name raises AL_INVALID_NAME
\* and deletes nothing; a deleted source stops.
alDeleteSources(s, n) ==
    IF n \in s.sources
    THEN Log([s EXCEPT !.sources = @ \ {n}, !.playing = @ \ {n}],
             <<"alDeleteSources", n>>)
    ELSE Raise(Log(s, <<"alDeleteSources", n>>), "AL_INVALID_NAME")

\* alDeleteBuffers(1, &clip->buffer): an invalid name raises AL_INVALID_NAME
\* and deletes nothing.
alDeleteBuffers(s, b) ==
    IF b \in s.buffers
    THEN Log([s EXCEPT !.buffers = @ \ {b}], <<"alDeleteBuffers", b>>)
    ELSE Raise(Log(s, <<"alDeleteBuffers", b>>), "AL_INVALID_NAME")

\* calloc(nmemb, size): mem says whether the heap has the block.
calloc(s, nmemb, size, mem) ==
    Log([s EXCEPT !.scratch = IF mem THEN @ + 1 ELSE @],
        <<"calloc", nmemb, size, mem>>)

\* free(clip_file_data)
free(s) == Log([s EXCEPT !.scratch = @ - 1], <<"free">>)

\* sf_readf_short(clip->file, data, frames): nread frames are delivered.
sf_readf_short(s, f, frames, nread) ==
    Log(s, <<"sf_readf_short", f, frames, nread>>)

\* alBufferData(buffer, format, data, size, freq): upErr says the backend
\* rejects the data.  The last element of the logged call is the error the
\* call raised.
alBufferData(s, b, format, size, freq, upErr) ==
    IF upErr
    THEN Raise(Log(s, <<"alBufferData", b, format, size, freq, "AL_INVALID_VALUE">>),
               "AL_INVALID_VALUE")
    ELSE Log(s, <<"alBufferData", b, format, size, freq, AL_NO_ERROR>>)

\* ------------------------------------------------------- clip cleanup

\* The cases of internal_audio_clip_cleanup's switch from which control
\* falls through to each release.
ClipCasesClosingFile ==
    {"IAC_CLEANUP_NORMALLY", "IAC_COPY_CLIP_FILE_DATA_TO_CLIP_BUFFER_FAILURE",
     "IAC_READ_CLIP_FILE_COMPLETELY_FAILURE",
     "IAC_ALLOCATE_MEMORY_TO_TEMP_CLIP_DATA_BUFFER_FAILURE"}

ClipCasesDeletingSource == ClipCasesClosingFile \cup {"IAC_OPEN_CLIP_FILE_FAILURE"}

ClipCasesDeletingBuffer ==
    ClipCasesDeletingSource \cup {"IAC_GENERATE_GLOBAL_SOURCE_FAILURE"}

\* A cleanup in which the case of a failed file open breaks instead of
\* falling through.
internal_audio_clip_cleanup_NoFallthrough(failure_status, s, c) ==
    LET s1 == IF failure_status \in ClipCasesClosingFile
              THEN sf_close(s, s.clip[c].file) ELSE s
        s2 == IF failure_status \in ClipCasesDeletingSource
              THEN alDeleteSources(s1, s1.global_source) ELSE s1
    IN  IF failure_status \in ClipCasesDeletingBuffer \ {"IAC_OPEN_CLIP_FILE_FAILURE"}
        THEN alDeleteBuffers(s2, s2.clip[c].buffer) ELSE s2

\* A cleanup in which the case of a failed buffer allocation falls into the
\* deletion of clip->buffer instead of breaking.
internal_audio_clip_cleanup_AlwaysBuffer(failure_status, s, c) ==
    LET s1 == IF failure_status \in ClipCasesClosingFile
              THEN sf_close(s, s.clip[c].file) ELSE s
        s2 == IF failure_status \in ClipCasesDeletingSource
              THEN alDeleteSources(s1, s1.global_source) ELSE s1
    IN  alDeleteBuffers(s2, s2.clip[c].buffer)

internal_audio_clip_cleanup(failure_status, s, c) ==
    LET s1 == IF failure_status \in ClipCasesClosingFile
              THEN sf_close(s, s.clip[c].file) ELSE s
        s2 == IF failure_status \in ClipCasesDeletingSource
              THEN alDeleteSources(s1, s1.global_source) ELSE s1
    IN  IF failure_status \in ClipCasesDeletingBuffer
        THEN alDeleteBuffers(s2, s2.clip[c].buffer) ELSE s2

\* -------------------------------------------------------- audioLoadClip

\* clip_file_info.format & pcm_format_mask
Masked(format) == format % (pcm_format_mask + 1)

\* bit_depth after the switch: the switch has no default, so for any other
\* masked value bit_depth keeps the indeterminate value it was declared with.
bit_depth_after_switch(format, garbage) ==
    IF Masked(format) \in {FORMAT_PCM_S8, FORMAT_PCM_U8} THEN 8
    ELSE IF Masked(format) = FORMAT_PCM_16 THEN 16
    ELSE garbage

\* A mapping with the mono and stereo tags exchanged.
clip_format_after_switch_Exchanged(format, channels, old) ==
    IF Masked(format) \in {FORMAT_PCM_S8, FORMAT_PCM_U8}
    THEN (IF channels = 1 THEN "AL_FORMAT_STEREO8" ELSE "AL_FORMAT_MONO8")
    ELSE IF Masked(format) = FORMAT_PCM_16
    THEN (IF channels = 1 THEN "AL_FORMAT_STEREO16" ELSE "AL_FORMAT_MONO16")
    ELSE old

\* clip->format after the switch; for any other masked value clip->format
\* is not written and keeps what the caller's object held.
clip_format_after_switch(format, channels, old) ==
    IF Masked(format) \in {FORMAT_PCM_S8, FORMAT_PCM_U8}
    THEN (IF channels = 1 THEN "AL_FORMAT_MONO8" ELSE "AL_FORMAT_STEREO8")
    ELSE IF Masked(format) = FORMAT_PCM_16
    THEN (IF channels = 1 THEN "AL_FORMAT_MONO16" ELSE "AL_FORMAT_STEREO16")
    ELSE old

\* What a call returns: the state it leaves, AUDIO_SUCCESS or AUDIO_FAILURE,
\* and the error it logged.
Returned(s, ok, failed) == [s |-> s, ok |-> ok, failed |-> failed]

\* A decode that allocates bit_depth / 8 bytes for each sample.
audioLoadClip_decode_Bytes(s4, c, in) ==
    LET info == in.hdr
        s5 == [s4 EXCEPT !.clip[c].frames = info.frames,
                         !.clip[c].sample_rate = info.samplerate,
                         !.clip[c].channels = info.channels,
                         !.clip[c].format =
                             clip_format_after_switch(info.format, info.channels, @)]
        bit_depth == bit_depth_after_switch(info.format, in.garbage)
        k == s5.clip[c]
        s6 == calloc(s5, k.frames * k.channels, bit_depth \div 8, in.mem)
        s7 == sf_readf_short(s6, k.file, k.frames, in.nread)
        s8 == alBufferData(s7, k.buffer, k.format,
                           (k.frames * k.channels * bit_depth) \div 2,
                           k.sample_rate, in.upErr)
        s9 == free(s8)
    IN  IF ~in.mem
        THEN Returned(internal_audio_clip_cleanup(
                          "IAC_ALLOCATE_MEMORY_TO_TEMP_CLIP_DATA_BUFFER_FAILURE", s6, c),
                      FALSE, "Failed to allocate memory to temporary clip data buffer")
        ELSE IF in.nread # k.frames
        THEN Returned(internal_audio_clip_cleanup(
                          "IAC_READ_CLIP_FILE_COMPLETELY_FAILURE", s7, c),
                      FALSE, "Failed to read clip file completely")
        ELSE IF s9.alError # AL_NO_ERROR
        THEN Returned(internal_audio_clip_cleanup(
                          "IAC_COPY_CLIP_FILE_DATA_TO_CLIP_BUFFER_FAILURE",
                          alGetError(s9), c),
                      FALSE, "Failed to copy clip file data to clip buffer")
        ELSE Returned(alGetError(s9), TRUE, "")

\* Lines 144-210: the file is open; in.mem, in.nread, in.upErr and in.garbage
\* are the outcomes of calloc, sf_readf_short and alBufferData and the
\* indeterminate bit_depth.
audioLoadClip_decode(s4, c, in) ==
    LET info == in.hdr
        s5 == [s4 EXCEPT !.clip[c].frames = info.frames,
                         !.clip[c].sample_rate = info.samplerate,
                         !.clip[c].channels = info.channels,
                         !.clip[c].format =
                             clip_format_after_switch(info.format, info.channels, @)]
        bit_depth == bit_depth_after_switch(info.format, in.garbage)
        k == s5.clip[c]
        s6 == calloc(s5, k.frames * k.channels, bit_depth \div 2, in.mem)
        s7 == sf_readf_short(s6, k.file, k.frames, in.nread)
        s8 == alBufferData(s7, k.buffer, k.format,
                           (k.frames * k.channels * bit_depth) \div 2,
                           k.sample_rate, in.upErr)
        s9 == free(s8)
    IN  IF ~in.mem
        THEN Returned(internal_audio_clip_cleanup(
                          "IAC_ALLOCATE_MEMORY_TO_TEMP_CLIP_DATA_BUFFER_FAILURE", s6, c),
                      FALSE, "Failed to allocate memory to temporary clip data buffer")
        ELSE IF in.nread # k.frames
        THEN Returned(internal_audio_clip_cleanup(
                          "IAC_READ_CLIP_FILE_COMPLETELY_FAILURE", s7, c),
                      FALSE, "Failed to read clip file completely")
        ELSE IF s9.alError # AL_NO_ERROR
        THEN Returned(internal_audio_clip_cleanup(
                          "IAC_COPY_CLIP_FILE_DATA_TO_CLIP_BUFFER_FAILURE",
                          alGetError(s9), c),
                      FALSE, "Failed to copy clip file data to clip buffer")
        ELSE Returned(alGetError(s9), TRUE, "")

\* An audioLoadClip without the alGetError of line 110.
audioLoadClip_NoClear(s0, c, in) ==
    LET s2 == alGenBuffers(s0, c, in.nb)
        s3 == alGenSources(alGetError(s2), in.ns)
        s4 == sf_open(alGetError(s3), c, in.nf)
    IN  IF s2.alError # AL_NO_ERROR
        THEN Returned(internal_audio_clip_cleanup(
                          "IAC_GENERATE_CLIP_BUFFER_FAILURE", alGetError(s2), c),
                      FALSE, "Failed to generate clip buffer")
        ELSE IF s3.alError # AL_NO_ERROR
        THEN Returned(internal_audio_clip_cleanup(
                          "IAC_GENERATE_GLOBAL_SOURCE_FAILURE", alGetError(s3), c),
                      FALSE, "Failed to generate global source")
        ELSE IF s4.clip[c].file = 0
        THEN Returned(internal_audio_clip_cleanup("IAC_OPEN_CLIP_FILE_FAILURE", s4, c),
                      FALSE, "Failed to open clip file")
        ELSE audioLoadClip_decode(s4, c, in)

\* audioLoadClip(clip, clip_file_name), lines 105-210.  in.nb, in.ns and in.nf
\* are the outcomes of alGenBuffers, alGenSources and sf_open.
audioLoadClip(s0, c, in) ==
    LET s1 == alGetError(s0)
        s2 == alGenBuffers(s1, c, in.nb)
        s3 == alGenSources(alGetError(s2), in.ns)
        s4 == sf_open(alGetError(s3), c, in.nf)
    IN  IF s2.alError # AL_NO_ERROR
        THEN Returned(internal_audio_clip_cleanup(
                          "IAC_GENERATE_CLIP_BUFFER_FAILURE", alGetError(s2), c),
                      FALSE, "Failed to generate clip buffer")
        ELSE IF s3.alError # AL_NO_ERROR
        THEN Returned(internal_audio_clip_cleanup(
                          "IAC_GENERATE_GLOBAL_SOURCE_FAILURE", alGetError(s3), c),
                      FALSE, "Failed to generate global source")
        ELSE IF s4.clip[c].file = 0
        THEN Returned(internal_audio_clip_cleanup("IAC_OPEN_CLIP_FILE_FAILURE", s4, c),
                      FALSE, "Failed to open clip file")
        ELSE audioLoadClip_decode(s4, c, in)

\* audioUnloadClip(clip), lines 228-231
audioUnloadClip(s0, c) ==
    Returned(internal_audio_clip_cleanup("IAC_CLEANUP_NORMALLY", s0, c), TRUE, "")

\* -------------------------------------------------------- audioPlayClip

AL_PLAYING == "AL_PLAYING"
AL_STOPPED == "AL_STOPPED"

\* alSourcei(global_source, AL_BUFFER, clip->buffer)
alSourcei_BUFFER(s, n, b) ==
    IF n \notin s.sources
    THEN Raise(Log(s, <<"alSourcei", n, b>>), "AL_INVALID_NAME")
    ELSE IF b \notin s.buffers
    THEN Raise(Log(s, <<"alSourcei", n, b>>), "AL_INVALID_VALUE")
    ELSE Log(s, <<"alSourcei", n, b>>)

\* alSourcePlay(global_source)
alSourcePlay(s, n) ==
    IF n \notin s.sources
    THEN Raise(Log(s, <<"alSourcePlay", n>>), "AL_INVALID_NAME")
    ELSE Log([s EXCEPT !.playing = @ \cup {n}], <<"alSourcePlay", n>>)

\* alGetSourcei(global_source, AL_SOURCE_STATE, &source_state): the value
\* stored in source_state; for an invalid name nothing is stored and
\* source_state keeps the value old.
alGetSourcei_STATE(s, n, old) ==
    IF n \notin s.sources THEN old
    ELSE IF n \in s.playing THEN AL_PLAYING ELSE AL_STOPPED

\* Lines 214-219: attach, start, declare source_state.
audioPlayClip_start(s0, c) ==
    LET s1 == alSourcei_BUFFER(s0, s0.global_source, s0.clip[c].buffer)
    IN  alSourcePlay(s1, s1.global_source)

\* The loop test in which the sense of the comparison is inverted.
audioPlayClip_again_Inverted(source_state, garbage) ==
    IF source_state = Uninit THEN garbage ELSE source_state # AL_PLAYING

\* Line 225: while (source_state == AL_PLAYING).  A source_state that was
\* never written compares either way.
audioPlayClip_again(source_state, garbage) ==
    IF source_state = Uninit THEN garbage ELSE source_state = AL_PLAYING

\* ------------------------------------------------------------- actions

NoHdr == [frames |-> 0, samplerate |-> 0, channels |-> 0, format |-> 0]

NoClip == [buffer |-> 0, format |-> Uninit, file |-> 0,
           frames |-> 0, sample_rate |-> 0, channels |-> 0]

Idle == [pc |-> "idle", c |-> 0, source_state |-> Uninit, trace |-> <<>>]

\* The state the operations work on, with an empty call log.
Now ==
    [buffers |-> buffers, sources |-> sources, files |-> files,
     scratch |-> scratch, playing |-> playing,
     alError |-> alError, global_source |-> global_source, clip |-> clip,
     trace |-> <<>>, ub |-> FALSE]

Becomes(s) ==
    /\ buffers' = s.buffers
    /\ sources' = s.sources
    /\ files' = s.files
    /\ scratch' = s.scratch
    /\ playing' = s.playing
    /\ alError' = s.alError
    /\ global_source' = s.global_source
    /\ clip' = s.clip

\* The count of outstanding handles of each kind.
Outstanding ==
    [buffers |-> Cardinality(buffers), sources |-> Cardinality(sources),
     files |-> Cardinality(files), devices |-> Cardinality(devices),
     contexts |-> Cardinality(contexts)]

\* The record of a completed call: the operation and its clip, the header
\* sf_open reported, what it returned and logged, the calls it made, the
\* handles and scratch blocks outstanding when it was called, and, for a
\* clip, its voice and whether it was alone when the call was made.
Completed(op, c, hdr, r) ==
    [op |-> op, c |-> c, hdr |-> hdr, ok |-> r.ok, failed |-> r.failed,
     pre |-> Outstanding, preScratch |-> scratch, trace |-> r.s.trace,
     ub |-> r.s.ub,
     voice |-> IF c \in Clips THEN voiceOf[c] ELSE 0,
     alone |-> c \in alone]

Rates == {8000, 44100}
Channels == {1, 2, 3}
Formats == {FORMAT_PCM_S8, FORMAT_PCM_16, FORMAT_PCM_24, FORMAT_PCM_U8, FORMAT_ALAW}
GarbageDepths == {0, 8, 24}

\* Every header the decoder may report.
Headers ==
    [frames : {1, MaxFrames}, samplerate : Rates, channels : Channels, format : Formats]

\* The headers of the files used where the clips' handles are what matters.
FewHeaders ==
    {h \in Headers : /\ h.frames = 1
                     /\ h.samplerate = 44100
                     /\ h.channels = 1
                     /\ h.format = FORMAT_PCM_16}

\* What an allocation of a name can return: 0 for failure, or a name not in
\* use.  The backend hands out the lowest unused name, so a released name is
\* reused by the next allocation.
Fresh(inUse) ==
    {0} \cup {n \in Handles \ inUse : \A m \in Handles \ inUse : n <= m}

Supported(format) ==
    Masked(format) \in {FORMAT_PCM_S8, FORMAT_PCM_U8, FORMAT_PCM_16}

\* The caller loads a clip object that holds no loaded clip, from a file whose
\* header is one of hdrs.  The outcomes of the backend calls are chosen here;
\* a call that is not reached has one outcome, the header is known once the
\* file is open, and calloc fails when the heap is full.
LoadClip(c, hdrs) ==
    /\ play.pc = "idle"
    /\ c \notin loaded
    /\ \E nb \in Fresh(buffers) :
       \E ns \in IF nb = 0 THEN {0} ELSE Fresh(sources) :
       \E nf \in IF ns = 0 THEN {0} ELSE Fresh(files) :
       \E hdr \in IF nf = 0 THEN {NoHdr} ELSE hdrs :
       \E mem \in IF nf = 0 \/ scratch >= MaxScratch THEN {FALSE} ELSE BOOLEAN :
       \E nread \in IF mem THEN 0..hdr.frames ELSE {0} :
       \E upErr \in IF mem /\ nread = hdr.frames THEN BOOLEAN ELSE {FALSE} :
       \E garbage \in IF nf = 0 \/ Supported(hdr.format) THEN {0} ELSE GarbageDepths :
          LET in == [hdr |-> hdr, nb |-> nb, ns |-> ns, nf |-> nf, mem |-> mem,
                     nread |-> nread, upErr |-> upErr, garbage |-> garbage]
              r == audioLoadClip(Now, c, in)
          IN  /\ Becomes(r.s)
              /\ loaded' = IF r.ok THEN loaded \cup {c} ELSE loaded
              /\ voiceOf' = IF r.ok THEN [voiceOf EXCEPT ![c] = in.ns] ELSE voiceOf
              /\ alone' = IF ~r.ok THEN alone
                          ELSE IF loaded = {} THEN {c} ELSE {}
              /\ last' = Completed("audioLoadClip", c, hdr, r)
    /\ UNCHANGED <<subsystemVars, play>>

\* The caller unloads a clip it loaded.
UnloadClip(c) ==
    /\ play.pc = "idle"
    /\ c \in loaded
    /\ LET r == audioUnloadClip(Now, c)
       IN  /\ Becomes(r.s)
           /\ last' = Completed("audioUnloadClip", c, NoHdr, r)
    /\ loaded' = loaded \ {c}
    /\ voiceOf' = [voiceOf EXCEPT ![c] = 0]
    /\ alone' = alone \ {c}
    /\ UNCHANGED <<subsystemVars, play>>

\* The caller plays a clip it loaded: audioPlayClip up to its first sleep.
PlayClip(c) ==
    /\ play.pc = "idle"
    /\ c \in loaded
    /\ LET s == audioPlayClip_start(Now, c)
       IN  /\ Becomes(s)
           /\ play' = [pc |-> "sleep", c |-> c, source_state |-> Uninit,
                       trace |-> s.trace]
    /\ UNCHANGED <<subsystemVars, loaded, voiceOf, alone, last>>

\* One turn of the loop: sleep(1) is over, the state is polled and tested.
PlayPoll ==
    /\ play.pc = "sleep"
    /\ LET source_state == alGetSourcei_STATE(Now, global_source, play.source_state)
           poll == <<"alGetSourcei", global_source, source_state>>
           s == IF global_source \in sources THEN Now ELSE Raise(Now, "AL_INVALID_NAME")
       IN  /\ Becomes(s)
           /\ \E garbage \in BOOLEAN :
                 IF audioPlayClip_again(source_state, garbage)
                 THEN /\ play' = [play EXCEPT !.source_state = source_state,
                                              !.trace = <<@[1], @[2], poll>>]
                      /\ last' = last
                 ELSE /\ play' = Idle
                      /\ last' = Completed("audioPlayClip", play.c, NoHdr,
                                  Returned([trace |-> <<play.trace[1], play.trace[2], poll>>,
                                            ub |-> source_state = Uninit],
                                           TRUE, ""))
    /\ UNCHANGED <<subsystemVars, loaded, voiceOf, alone>>

\* The backend finishes playing the buffer.
PlaybackEnds ==
    /\ playing # {}
    /\ playing' = {}
    /\ UNCHANGED <<subsystemVars, buffers, sources, files, scratch,
                   alError, global_source, clip, loaded, voiceOf, alone, play, last>>

ClipInit ==
    /\ buffers = {}
    /\ sources = {}
    /\ files = {}
    /\ scratch = 0
    /\ playing = {}
    /\ alError = AL_NO_ERROR
    /\ global_source = 0
    /\ clip = [c \in Clips |-> NoClip]
    /\ loaded = {}
    /\ voiceOf = [c \in Clips |-> 0]
    /\ alone = {}
    /\ play = Idle

\* ------------------------------------------------- subsystem lifecycle
\* The operations below are functions of a record t holding the ALC state,
\* the statics and the calls logged so far.

ContextHandles(t) == {x[1] : x \in t.contexts}

Last(seq) == seq[Len(seq)]

\* alcOpenDevice(NULL): d is the device, NULL (0) when none can be opened.
alcOpenDevice(t, d) ==
    Log([t EXCEPT !.devices = @ \cup (IF d = 0 THEN {} ELSE {d}),
                  !.global_device = d],
        <<"alcOpenDevice", d>>)

\* alcCreateContext(global_device, NULL): x is the context, NULL when none
\* can be created.
alcCreateContext(t, dev, x) ==
    Log([t EXCEPT !.contexts = @ \cup (IF x = 0 THEN {} ELSE {<<x, dev>>}),
                  !.global_context = x],
        <<"alcCreateContext", x, dev>>)

\* alcMakeContextCurrent(context): NULL releases the current context; a live
\* context becomes current unless the backend refuses (~mk); anything else
\* is refused.  The last element of the logged call is what it returned.
alcMakeContextCurrent(t, x, mk) ==
    IF x = 0
    THEN Log([t EXCEPT !.current = 0], <<"alcMakeContextCurrent", 0, TRUE>>)
    ELSE IF x \in ContextHandles(t) /\ mk
    THEN Log([t EXCEPT !.current = x], <<"alcMakeContextCurrent", x, TRUE>>)
    ELSE Log(t, <<"alcMakeContextCurrent", x, FALSE>>)

\* alcDestroyContext(global_context): a handle that is not a live context,
\* or is the current one, is not destroyed.
alcDestroyContext(t, x) ==
    IF x \in ContextHandles(t) /\ x # t.current
    THEN Log([t EXCEPT !.contexts = {y \in @ : y[1] # x}], <<"alcDestroyContext", x>>)
    ELSE Log([t EXCEPT !.ub = TRUE], <<"alcDestroyContext", x>>)

\* alcCloseDevice(global_device): a handle that is not an open device, or a
\* device that still has contexts, is not closed.
alcCloseDevice(t, d) ==
    IF d \in t.devices /\ ~(\E y \in t.contexts : y[2] = d)
    THEN Log([t EXCEPT !.devices = @ \ {d}], <<"alcCloseDevice", d>>)
    ELSE Log([t EXCEPT !.ub = TRUE], <<"alcCloseDevice", d>>)

\* The cases of internal_audio_subsystem_cleanup's switch from which control
\* falls through to each release.
SubsystemCasesDestroyingContext ==
    {"IAS_CLEANUP_NORMALLY", "IAS_MAKE_CONTEXT_CURRENT_FAILURE"}

SubsystemCasesClosingDevice ==
    SubsystemCasesDestroyingContext \cup {"IAS_CREATE_DEVICE_CONTEXT_FAILURE"}

\* A cleanup that closes the device before destroying the context.
internal_audio_subsystem_cleanup_Swapped(failure_status, t) ==
    LET t1 == IF failure_status = "IAS_CLEANUP_NORMALLY"
              THEN alcMakeContextCurrent(t, 0, TRUE) ELSE t
        t2 == IF failure_status \in SubsystemCasesClosingDevice
              THEN alcCloseDevice(t1, t1.global_device) ELSE t1
    IN  IF failure_status \in SubsystemCasesDestroyingContext
        THEN alcDestroyContext(t2, t2.global_context) ELSE t2

\* A cleanup whose normal case does not deactivate the current context.
internal_audio_subsystem_cleanup_NoDeactivate(failure_status, t) ==
    LET t2 == IF failure_status \in SubsystemCasesDestroyingContext
              THEN alcDestroyContext(t, t.global_context) ELSE t
    IN  IF failure_status \in SubsystemCasesClosingDevice
        THEN alcCloseDevice(t2, t2.global_device) ELSE t2

internal_audio_subsystem_cleanup(failure_status, t) ==
    LET t1 == IF failure_status = "IAS_CLEANUP_NORMALLY"
              THEN alcMakeContextCurrent(t, 0, TRUE) ELSE t
        t2 == IF failure_status \in SubsystemCasesDestroyingContext
              THEN alcDestroyContext(t1, t1.global_context) ELSE t1
    IN  IF failure_status \in SubsystemCasesClosingDevice
        THEN alcCloseDevice(t2, t2.global_device) ELSE t2

\* An audioInitSubsystem that does not test what alcMakeContextCurrent returned.
audioInitSubsystem_Unchecked(t0, in) ==
    LET t1 == alcOpenDevice(t0, in.d)
        t2 == alcCreateContext(t1, t1.global_device, in.x)
        t3 == alcMakeContextCurrent(t2, t2.global_context, in.mk)
    IN  IF t1.global_device = 0
        THEN Returned(internal_audio_subsystem_cleanup(
                          "IAS_OPEN_DEFAULT_DEVICE_FAILURE", t1),
                      FALSE, "Failed to open default audio device")
        ELSE IF t2.global_context = 0
        THEN Returned(internal_audio_subsystem_cleanup(
                          "IAS_CREATE_DEVICE_CONTEXT_FAILURE", t2),
                      FALSE, "Failed to create device context")
        ELSE Returned(t3, TRUE, "")

\* audioInitSubsystem(), lines 70-103.  in.d, in.x and in.mk are the outcomes
\* of alcOpenDevice, alcCreateContext and alcMakeContextCurrent.
audioInitSubsystem(t0, in) ==
    LET t1 == alcOpenDevice(t0, in.d)
        t2 == alcCreateContext(t1, t1.global_device, in.x)
        t3 == alcMakeContextCurrent(t2, t2.global_context, in.mk)
    IN  IF t1.global_device = 0
        THEN Returned(internal_audio_subsystem_cleanup(
                          "IAS_OPEN_DEFAULT_DEVICE_FAILURE", t1),
                      FALSE, "Failed to open default audio device")
        ELSE IF t2.global_context = 0
        THEN Returned(internal_audio_subsystem_cleanup(
                          "IAS_CREATE_DEVICE_CONTEXT_FAILURE", t2),
                      FALSE, "Failed to create device context")
        ELSE IF ~Last(t3.trace)[3]
        THEN Returned(internal_audio_subsystem_cleanup(
                          "IAS_MAKE_CONTEXT_CURRENT_FAILURE", t3),
                      FALSE, "Failed to make context current")
        ELSE Returned(t3, TRUE, "")

\* audioQuitSubsystem(), lines 233-236
audioQuitSubsystem(t0) ==
    Returned(internal_audio_subsystem_cleanup("IAS_CLEANUP_NORMALLY", t0), TRUE, "")

SubsystemNow ==
    [devices |-> devices, contexts |-> contexts, current |-> current,
     global_device |-> global_device, global_context |-> global_context,
     trace |-> <<>>, ub |-> FALSE]

SubsystemBecomes(t) ==
    /\ devices' = t.devices
    /\ contexts' = t.contexts
    /\ current' = t.current
    /\ global_device' = t.global_device
    /\ global_context' = t.global_context

\* What alcOpenDevice and alcCreateContext can return: NULL, or any pointer
\* that is not a live handle.
FreshPointer(inUse) == (Handles \ inUse) \cup {0}

\* The outcomes of the backend calls of one audioInitSubsystem; a call that
\* is not reached has one outcome.
InitInputs ==
    {in \in [d : FreshPointer(devices),
             x : FreshPointer(ContextHandles(SubsystemNow)),
             mk : BOOLEAN] :
        /\ in.d = 0 => in.x = 0
        /\ in.x = 0 => ~in.mk}

InitSubsystem ==
    /\ play.pc = "idle"
    /\ \E in \in InitInputs :
          LET r == audioInitSubsystem(SubsystemNow, in)
          IN  /\ SubsystemBecomes(r.s)
              /\ initialized' = (initialized \/ r.ok)
              /\ last' = Completed("audioInitSubsystem", 0, NoHdr, r)
    /\ UNCHANGED clipVars

\* The caller shuts down a subsystem that some audioInitSubsystem started.
QuitSubsystem ==
    /\ play.pc = "idle"
    /\ initialized
    /\ LET r == audioQuitSubsystem(SubsystemNow)
       IN  /\ SubsystemBecomes(r.s)
           /\ last' = Completed("audioQuitSubsystem", 0, NoHdr, r)
    /\ UNCHANGED <<initialized, clipVars>>

SubsystemInit ==
    /\ devices = {}
    /\ contexts = {}
    /\ current = 0
    /\ global_device = 0
    /\ global_context = 0
    /\ initialized = FALSE

NoCall ==
    [op |-> "", c |-> 0, hdr |-> NoHdr, ok |-> TRUE, failed |-> "",
     pre |-> [buffers |-> 0, sources |-> 0, files |-> 0, devices |-> 0, contexts |-> 0],
     preScratch |-> 0, trace |-> <<>>, ub |-> FALSE, voice |-> 0, alone |-> FALSE]

Init == SubsystemInit /\ ClipInit /\ last = NoCall

\* ------------------------------------------------------ specifications

\* The clip lifecycle over every clip object, on files of one header.
Next ==
    \/ \E c \in Clips : LoadClip(c, FewHeaders)
    \/ \E c \in Clips : UnloadClip(c)
    \/ \E c \in Clips : PlayClip(c)
    \/ PlayPoll
    \/ PlaybackEnds

Spec == Init /\ [][Next]_vars

\* The clip lifecycle of the first and the last clip object, in which a
\* sleeping audioPlayClip goes on: sleep(1) returns and the loop body of
\* lines 221-225 is run again.
NextFair ==
    \/ \E c \in {1, MaxClips} : LoadClip(c, FewHeaders)
    \/ \E c \in {1, MaxClips} : UnloadClip(c)
    \/ \E c \in {1, MaxClips} : PlayClip(c)
    \/ PlayPoll
    \/ PlaybackEnds

SpecFair == Init /\ [][NextFair]_vars /\ WF_vars(PlayPoll)

\* The clip lifecycle of one clip object, on files of every header.
NextFormats ==
    \/ LoadClip(1, Headers)
    \/ UnloadClip(1)

SpecFormats == Init /\ [][NextFormats]_vars

\* The subsystem lifecycle.
NextSubsystem == InitSubsystem \/ QuitSubsystem

SpecSubsystem == Init /\ [][NextSubsystem]_vars

\* ------------------------------------------------------------- claims

\* The calls named in calls that an operation made, in the order made.
Calls(trace, calls) == SelectSeq(trace, LAMBDA e : e[1] \in calls)

\* What the first call of this name returned or was given as its handle; 0
\* when it returned none or was not made.
Got(trace, call) ==
    LET es == Calls(trace, {call}) IN IF es = <<>> THEN 0 ELSE es[1][2]

\* One call, when it was due; nothing otherwise.
When(due, call) == IF due THEN <<call>> ELSE <<>>

\* The errors audioLoadClip logs, in the order of its fallible steps.
LoadSteps ==
    <<"Failed to generate clip buffer",
      "Failed to generate global source",
      "Failed to open clip file",
      "Failed to allocate memory to temporary clip data buffer",
      "Failed to read clip file completely",
      "Failed to copy clip file data to clip buffer">>

LoadFailed == last.op = "audioLoadClip" /\ ~last.ok

\* The errors audioInitSubsystem logs, in the order of its steps.
InitSteps ==
    <<"Failed to open default audio device",
      "Failed to create device context",
      "Failed to make context current">>

\* C1: when audioLoadClip fails at step k (1 buffer, 2 voice, 3 file open,
\* 4 scratch, 5 read, 6 upload), the releases it makes are exactly those of
\* the handles it acquired before step k, the file first, then the voice,
\* then the buffer; the failing step acquired nothing; the released handles
\* are no longer live; and as many buffers, voices and files are outstanding
\* after the call as before it.
C1_LoadRollsBack ==
    LoadFailed =>
        LET k == CHOOSE i \in 1..6 : LoadSteps[i] = last.failed
            b == Got(last.trace, "alGenBuffers")
            v == Got(last.trace, "alGenSources")
            f == Got(last.trace, "sf_open")
        IN  /\ Calls(last.trace, {"sf_close", "alDeleteSources", "alDeleteBuffers"})
                  = When(k >= 4, <<"sf_close", f>>)
                    \o When(k >= 3, <<"alDeleteSources", v>>)
                    \o When(k >= 2, <<"alDeleteBuffers", b>>)
            /\ (k >= 2) = (b # 0)
            /\ (k >= 3) = (v # 0)
            /\ (k >= 4) = (f # 0)
            /\ b \notin buffers /\ v \notin sources /\ f \notin files
            /\ ~last.ub
            /\ Cardinality(buffers) = last.pre.buffers
            /\ Cardinality(sources) = last.pre.sources
            /\ Cardinality(files) = last.pre.files

\* C1's case: a load fails at the upload while another clip is loaded.
C1_Witness ==
    /\ LoadFailed
    /\ last.failed = LoadSteps[6]
    /\ loaded # {}

\* C2: when a step of audioInitSubsystem fails (1 open device, 2 create
\* context, 3 make current), the call returns failure with that step's error,
\* the releases it makes are exactly those of the handles acquired before
\* that step, the context destroyed before the device is closed, every
\* release is of a live handle, and neither the device nor the context of
\* the call remains: as many devices and contexts are outstanding as before.
C2_InitRollsBack ==
    last.op = "audioInitSubsystem" =>
        LET d == Got(last.trace, "alcOpenDevice")
            x == Got(last.trace, "alcCreateContext")
            mk == Calls(last.trace, {"alcMakeContextCurrent"})
            k == IF d = 0 THEN 1
                 ELSE IF x = 0 THEN 2
                 ELSE IF ~mk[1][3] THEN 3 ELSE 0
        IN  k # 0 =>
                /\ ~last.ok
                /\ last.failed = InitSteps[k]
                /\ Calls(last.trace, {"alcDestroyContext", "alcCloseDevice"})
                      = When(k >= 3, <<"alcDestroyContext", x>>)
                        \o When(k >= 2, <<"alcCloseDevice", d>>)
                /\ ~last.ub
                /\ d \notin devices
                /\ x \notin {y[1] : y \in contexts}
                /\ Cardinality(devices) = last.pre.devices
                /\ Cardinality(contexts) = last.pre.contexts

\* C2's case: making the context current fails while an earlier subsystem is
\* still up.
C2_Witness ==
    /\ last.op = "audioInitSubsystem"
    /\ last.failed = InitSteps[3]
    /\ devices # {}

\* C3: no audioLoadClip returns with its scratch buffer still allocated.
C3_ScratchReleased ==
    last.op = "audioLoadClip" => scratch = last.preScratch

\* C4: the voice freed by a clip's unload is the one created by that clip's
\* load; so a loaded clip's voice is live until that clip is unloaded, and
\* once every clip is unloaded no voice is outstanding.
C4_VoiceFreedByItsClip ==
    /\ last.op = "audioUnloadClip" =>
           Calls(last.trace, {"alDeleteSources"}) = <<<<"alDeleteSources", last.voice>>>>
    /\ \A c \in loaded : voiceOf[c] \in sources
    /\ loaded = {} => sources = {}

\* The headers the format table supports.
InTable(hdr) ==
    /\ hdr.format \in {FORMAT_PCM_S8, FORMAT_PCM_U8, FORMAT_PCM_16}
    /\ hdr.channels \in {1, 2}

LoadedFrom(hdr) == last.op = "audioLoadClip" /\ last.hdr = hdr

\* C5: a load from a file whose header is outside the table fails, uploads
\* nothing, and leaves as many buffers, voices and files as it found.
C5_UnsupportedRejected ==
    \A hdr \in Headers :
        (LoadedFrom(hdr) /\ ~InTable(hdr)) =>
            /\ ~last.ok
            /\ Calls(last.trace, {"alBufferData"}) = <<>>
            /\ Cardinality(buffers) = last.pre.buffers
            /\ Cardinality(sources) = last.pre.sources
            /\ Cardinality(files) = last.pre.files

\* Bytes in one sample of the header's encoding.
BytesPerSample(hdr) ==
    IF hdr.format \in {FORMAT_PCM_S8, FORMAT_PCM_U8} THEN 1 ELSE 2

\* C6: a successful load from an 8-bit or 16-bit file allocates a scratch
\* buffer of F * C * bytesPerSample bytes and uploads that many bytes.
C6_SizesAreFramesChannelsBytes ==
    \A hdr \in Headers :
        (LoadedFrom(hdr) /\ last.ok
           /\ hdr.format \in {FORMAT_PCM_S8, FORMAT_PCM_U8, FORMAT_PCM_16}) =>
            LET bytes == hdr.frames * hdr.channels * BytesPerSample(hdr)
                alloc == Calls(last.trace, {"calloc"})[1]
                upload == Calls(last.trace, {"alBufferData"})[1]
            IN  /\ alloc[2] * alloc[3] = bytes
                /\ upload[4] = bytes

\* C7: after a successful load from a file whose header is in the table, the
\* clip has the header's frame count, sample rate and channel count, and the
\* format tag the table gives.
C7_ClipMatchesHeader ==
    \A hdr \in Headers :
        (LoadedFrom(hdr) /\ last.ok /\ InTable(hdr)) =>
            /\ clip[last.c].frames = hdr.frames
            /\ clip[last.c].sample_rate = hdr.samplerate
            /\ clip[last.c].channels = hdr.channels
            /\ clip[last.c].format =
                   CASE hdr.format = FORMAT_PCM_16 /\ hdr.channels = 1 -> "AL_FORMAT_MONO16"
                     [] hdr.format = FORMAT_PCM_16 /\ hdr.channels = 2 -> "AL_FORMAT_STEREO16"
                     [] hdr.format # FORMAT_PCM_16 /\ hdr.channels = 1 -> "AL_FORMAT_MONO8"
                     [] hdr.format # FORMAT_PCM_16 /\ hdr.channels = 2 -> "AL_FORMAT_STEREO8"

\* C7's case: an unsigned 8-bit stereo file of the largest frame count loads.
C7_Witness ==
    /\ last.op = "audioLoadClip"
    /\ last.ok
    /\ last.hdr.format = FORMAT_PCM_U8
    /\ last.hdr.channels = 2
    /\ last.hdr.frames = MaxFrames
    /\ clip[last.c].format = "AL_FORMAT_STEREO8"

\* C8: after a failed load the caller's clip holds neither the buffer handle
\* nor the file handle the load acquired, nor the metadata of the header it
\* read.
C8_NoClipOnFailure ==
    LoadFailed =>
        /\ Got(last.trace, "alGenBuffers") # 0 =>
               clip[last.c].buffer # Got(last.trace, "alGenBuffers")
        /\ Got(last.trace, "sf_open") # 0 =>
               clip[last.c].file # Got(last.trace, "sf_open")
        /\ last.hdr # NoHdr =>
               /\ clip[last.c].frames # last.hdr.frames
               /\ clip[last.c].sample_rate # last.hdr.samplerate
               /\ clip[last.c].channels # last.hdr.channels

\* C9: the unload of a clip during whose life no other clip was loaded closes
\* the clip's file, then deletes the clip's voice, then deletes the clip's
\* buffer, each once, and leaves one buffer, one voice and one file fewer
\* outstanding: as many as before the clip's load.
C9_UnloadReleasesInOrder ==
    (last.op = "audioUnloadClip" /\ last.alone) =>
        /\ Calls(last.trace, {"sf_close", "alDeleteSources", "alDeleteBuffers"})
              = <<<<"sf_close", clip[last.c].file>>,
                  <<"alDeleteSources", last.voice>>,
                  <<"alDeleteBuffers", clip[last.c].buffer>>>>
        /\ Cardinality(files) = last.pre.files - 1
        /\ Cardinality(sources) = last.pre.sources - 1
        /\ Cardinality(buffers) = last.pre.buffers - 1

Returned_audioPlayClip == last.op = "audioPlayClip" /\ play.pc = "idle"

\* C10: audioPlayClip attaches the clip's buffer to the voice, then starts the
\* voice, then polls; while it sleeps no poll has seen the voice stopped; and
\* it has returned only after a poll that did not see the voice playing, the
\* voice not playing.
C10_PlayOrder ==
    /\ play.pc = "sleep" =>
           /\ Len(play.trace) \in {2, 3}
           /\ play.trace[1] = <<"alSourcei", global_source, clip[play.c].buffer>>
           /\ play.trace[2] = <<"alSourcePlay", global_source>>
           /\ Len(play.trace) = 3 =>
                  /\ play.trace[3][1] = "alGetSourcei"
                  /\ play.trace[3][3] # AL_STOPPED
    /\ Returned_audioPlayClip =>
           /\ Len(last.trace) = 3
           /\ last.trace[1] = <<"alSourcei", global_source, clip[last.c].buffer>>
           /\ last.trace[2] = <<"alSourcePlay", global_source>>
           /\ last.trace[3][1] = "alGetSourcei"
           /\ last.trace[3][3] # AL_PLAYING
           /\ global_source \notin playing

\* C10's case: a live voice played the clip, was seen playing and then
\* stopped, and audioPlayClip has returned.
C10_Witness ==
    /\ Returned_audioPlayClip
    /\ global_source \in sources
    /\ last.trace[3] = <<"alGetSourcei", global_source, AL_STOPPED>>

\* C11: audioInitSubsystem returns success exactly when alcOpenDevice returned
\* a device, alcCreateContext returned a context and alcMakeContextCurrent
\* returned true; then it destroyed no context and closed no device, the
\* device is open, the context exists on that device and is the current one,
\* and the statics hold them.
C11_InitSucceeds ==
    last.op = "audioInitSubsystem" =>
        LET d == Got(last.trace, "alcOpenDevice")
            x == Got(last.trace, "alcCreateContext")
            mk == Calls(last.trace, {"alcMakeContextCurrent"})
        IN  /\ last.ok = (d # 0 /\ x # 0 /\ mk # <<>> /\ mk[Len(mk)][3])
            /\ last.ok =>
                   /\ last.failed = ""
                   /\ Calls(last.trace, {"alcDestroyContext", "alcCloseDevice"}) = <<>>
                   /\ mk = <<<<"alcMakeContextCurrent", x, TRUE>>>>
                   /\ d \in devices
                   /\ <<x, d>> \in contexts
                   /\ current = x
                   /\ global_device = d /\ global_context = x
                   /\ Cardinality(devices) = last.pre.devices + 1
                   /\ Cardinality(contexts) = last.pre.contexts + 1

\* C11's case: an audioInitSubsystem succeeds while an earlier subsystem is
\* still up.
C11_Witness ==
    /\ last.op = "audioInitSubsystem"
    /\ last.ok
    /\ last.pre.devices = 1
    /\ current = global_context

\* C12: the audioQuitSubsystem that follows a successful audioInitSubsystem
\* makes exactly three calls: it deactivates the current context, then
\* destroys the context of that init, then closes the device of that init;
\* each call takes effect, so neither the context nor the device remains and
\* no context is current.
C12_QuitReleasesInOrder ==
    [][(last.op = "audioInitSubsystem" /\ last.ok /\ last'.op = "audioQuitSubsystem") =>
           /\ last'.trace = <<<<"alcMakeContextCurrent", 0, TRUE>>,
                              <<"alcDestroyContext", global_context>>,
                              <<"alcCloseDevice", global_device>>>>
           /\ ~last'.ub
           /\ current' = 0
           /\ contexts' = contexts \ {<<global_context, global_device>>}
           /\ devices' = devices \ {global_device}
           /\ <<global_context, global_device>> \in contexts
           /\ global_device \in devices]_vars

\* C12's case: an audioQuitSubsystem has released a device and a context
\* while another subsystem stays up.
C12_Witness ==
    /\ last.op = "audioQuitSubsystem"
    /\ ~last.ub
    /\ last.pre.devices = 2
    /\ Cardinality(devices) = 1
    /\ Cardinality(contexts) = 1

\* C13: every loaded clip's buffer and file are live; and whatever an
\* operation does, a clip that is loaded before and after it keeps the same
\* buffer handle and file handle.
C13_BufferAndFileOwned ==
    [][/\ \A c \in loaded' : /\ clip'[c].buffer \in buffers'
                              /\ clip'[c].file \in files'
       /\ \A c \in loaded \cap loaded' : /\ clip'[c].buffer = clip[c].buffer
                                          /\ clip'[c].file = clip[c].file]_vars

\* C13's case: a clip stays loaded, its buffer and file live, across the
\* unload of another clip.
C13_Witness ==
    /\ last.op = "audioUnloadClip"
    /\ \E c \in loaded : /\ c # last.c
                          /\ clip[c].buffer \in buffers
                          /\ clip[c].file \in files

\* The ALC state after the first n calls of a logged sequence of calls, made
\* from the state t.
RECURSIVE AfterCalls(_, _, _)
AfterCalls(t, trace, n) ==
    IF n = 0 THEN t
    ELSE LET e == trace[n]
             p == AfterCalls(t, trace, n - 1)
         IN  CASE e[1] = "alcOpenDevice" -> alcOpenDevice(p, e[2])
               [] e[1] = "alcCreateContext" -> alcCreateContext(p, e[3], e[2])
               [] e[1] = "alcMakeContextCurrent" -> alcMakeContextCurrent(p, e[2], e[3])
               [] e[1] = "alcDestroyContext" -> alcDestroyContext(p, e[2])
               [] e[1] = "alcCloseDevice" -> alcCloseDevice(p, e[2])

\* C14: every live context is on an open device, in every state; and no
\* audioInitSubsystem or audioQuitSubsystem calls alcCloseDevice on a device
\* on which, at that point of the call, a context still exists.
C14_ContextWithinDevice ==
    [][/\ \A y \in contexts' : y[2] \in devices'
       /\ last' # last =>
              \A i \in 1..Len(last'.trace) :
                  last'.trace[i][1] = "alcCloseDevice" =>
                      \A y \in AfterCalls(SubsystemNow, last'.trace, i - 1).contexts :
                          y[2] # last'.trace[i][2]]_vars

\* C14's case: an audioQuitSubsystem has destroyed a context and closed its
\* device while the context of another subsystem is live on its open device.
C14_Witness ==
    /\ last.op = "audioQuitSubsystem"
    /\ ~last.ub
    /\ Cardinality(contexts) = last.pre.contexts - 1
    /\ \E y \in contexts : y[2] \in devices

\* C15: an audioQuitSubsystem that directly follows an audioQuitSubsystem
\* changes nothing: the same devices are open, the same contexts exist, no
\* context is current and the statics are as the first call left them; so it
\* destroys no context and closes no device.
C15_QuitTwiceIsQuitOnce ==
    [][(last.op = "audioQuitSubsystem" /\ last'.op = "audioQuitSubsystem"
          /\ last' # last) =>
           /\ devices' = devices
           /\ contexts' = contexts
           /\ current' = current /\ current = 0
           /\ global_device' = global_device
           /\ global_context' = global_context]_vars

\* C15's case: an audioQuitSubsystem was called when every device and
\* context had been released, the statics still holding released handles.
C15_Witness ==
    /\ last.op = "audioQuitSubsystem"
    /\ last.ub
    /\ global_device # 0 /\ global_device \notin devices
    /\ global_context # 0 /\ global_context \notin ContextHandles(SubsystemNow)
    /\ devices = {} /\ last.pre.devices = 0
    /\ contexts = {} /\ last.pre.contexts = 0

\* The calls that read or write the backend's error flag.
ErrorFlagCalls ==
    {"alGetError", "alGenBuffers", "alGenSources", "alBufferData",
     "alDeleteSources", "alDeleteBuffers"}

\* Whether a logged alGenBuffers, alGenSources or alBufferData raised an error.
RaisedBy(e) == IF e[1] = "alBufferData" THEN e[6] # AL_NO_ERROR ELSE e[2] = 0

\* C16: in every audioLoadClip, each alGenBuffers, alGenSources and
\* alBufferData is made directly after an alGetError (which clears the flag),
\* with no call between them that can raise an error, and is directly
\* followed by an alGetError, which returns an error exactly when that call
\* raised one; and the load reports a failure of one of these three steps
\* exactly when the step's own call raised an error.
C16_ErrorFlagFresh ==
    last.op = "audioLoadClip" =>
        LET al == Calls(last.trace, ErrorFlagCalls)
            fallible == {i \in 1..Len(al) :
                            al[i][1] \in {"alGenBuffers", "alGenSources", "alBufferData"}}
            blamed == CASE last.failed = LoadSteps[1] -> "alGenBuffers"
                        [] last.failed = LoadSteps[2] -> "alGenSources"
                        [] last.failed = LoadSteps[6] -> "alBufferData"
                        [] OTHER -> ""
        IN  /\ al[1][1] = "alGetError"
            /\ \A i \in fallible :
                   /\ i > 1 /\ al[i - 1][1] = "alGetError"
                   /\ i < Len(al) /\ al[i + 1][1] = "alGetError"
                   /\ (al[i + 1][2] # AL_NO_ERROR) = RaisedBy(al[i])
                   /\ RaisedBy(al[i]) = (blamed = al[i][1])
            /\ blamed # "" => \E i \in fallible : al[i][1] = blamed

\* C16's case: an audioLoadClip is called with an error pending from an
\* earlier call, and succeeds.
C16_Witness ==
    /\ last.op = "audioLoadClip"
    /\ last.ok
    /\ last.trace[1] = <<"alGetError", "AL_INVALID_NAME">>
    /\ Calls(last.trace, {"alBufferData"}) # <<>>

\* The calls by which audioInitSubsystem and audioLoadClip acquire something.
Acquiring ==
    {"alcOpenDevice", "alcCreateContext", "alcMakeContextCurrent",
     "alGenBuffers", "alGenSources", "sf_open", "calloc", "sf_readf_short",
     "alBufferData"}

\* No acquiring call is made twice in one call of an operation.
NothingRetried(trace) ==
    \A call \in Acquiring : Len(Calls(trace, {call})) <= 1

\* A call of op has failed and the next call, of the same operation on the
\* same object, succeeds.
Retried(op) ==
    /\ last.op = op /\ ~last.ok
    /\ last' # last
    /\ last'.op = op /\ last'.c = last.c /\ last'.ok

\* The handles of a clip are live.
ClipLive(k, bs, fs) == k.buffer \in bs /\ k.file \in fs

\* C17: an audioInitSubsystem or audioLoadClip that succeeds directly after a
\* failed call of the same operation leaves what a successful first call
\* would have left in place of the failed one: one more device and context
\* (one more buffer, voice and file) than were outstanding before the failed
\* call, all live, and no scratch block more; and neither call made any of
\* its acquiring calls twice.
C17_RetryAsFirstCall ==
    [][/\ Retried("audioInitSubsystem") =>
              /\ Cardinality(devices') = last.pre.devices + 1
              /\ Cardinality(contexts') = last.pre.contexts + 1
              /\ <<global_context', global_device'>> \in contexts'
              /\ global_device' \in devices'
              /\ current' = global_context'
              /\ NothingRetried(last.trace) /\ NothingRetried(last'.trace)
       /\ Retried("audioLoadClip") =>
              /\ Cardinality(buffers') = last.pre.buffers + 1
              /\ Cardinality(sources') = last.pre.sources + 1
              /\ Cardinality(files') = last.pre.files + 1
              /\ ClipLive(clip'[last.c], buffers', files')
              /\ global_source' \in sources'
              /\ scratch' = last.preScratch
              /\ NothingRetried(last.trace) /\ NothingRetried(last'.trace)]_vars

\* C18: once a sleeping audioPlayClip's voice is live and not playing,
\* audioPlayClip returns; and audioPlayClip returns only in a step that polls
\* the voice's state and does not read AL_PLAYING, so it has polled at least
\* once and does not return while the polls read AL_PLAYING.
C18_PlayReturns ==
    /\ (play.pc = "sleep" /\ global_source \in sources /\ global_source \notin playing)
           ~> (play.pc = "idle")
    /\ [][(play.pc = "sleep" /\ play'.pc = "idle") =>
              /\ last'.op = "audioPlayClip"
              /\ Len(last'.trace) = 3
              /\ last'.trace[3] =
                     <<"alGetSourcei", global_source,
                       alGetSourcei_STATE(Now, global_source, play.source_state)>>
              /\ last'.trace[3][3] # AL_PLAYING]_vars

\* C18's case: audioPlayClip sleeps, a poll has read AL_PLAYING, and the
\* voice has since stopped.
C18_Witness ==
    /\ play.pc = "sleep"
    /\ play.source_state = AL_PLAYING
    /\ global_source \in sources
    /\ global_source \notin playing

\* C19: the voice to which a running audioPlayClip attached the clip's buffer,
\* and which it started, is a live voice.
C19_VoiceLiveAtPlay ==
    play.pc = "sleep" =>
        /\ play.trace[1][2] \in sources
        /\ play.trace[2][2] \in sources

\* C20: in a load from an 8-bit or 16-bit file of F frames and C channels,
\* the F * C samples of 2 bytes that sf_readf_short is asked to write, and
\* the byte length given to alBufferData, are at most the nmemb * size bytes
\* calloc was asked for.
C20_ScratchLargeEnough ==
    \A hdr \in Headers :
        (LoadedFrom(hdr)
           /\ hdr.format \in {FORMAT_PCM_S8, FORMAT_PCM_U8, FORMAT_PCM_16}) =>
            LET alloc == Calls(last.trace, {"calloc"})
                read == Calls(last.trace, {"sf_readf_short"})
                upload == Calls(last.trace, {"alBufferData"})
            IN  /\ read # <<>> =>
                       read[1][3] * hdr.channels * 2 <= alloc[1][2] * alloc[1][3]
                /\ upload # <<>> =>
                       upload[1][4] <= alloc[1][2] * alloc[1][3]

\* C20's case: a signed 8-bit file of the largest frame count and three
\* channels is read into the scratch buffer and uploaded.
C20_Witness ==
    /\ last.op = "audioLoadClip"
    /\ last.hdr.format = FORMAT_PCM_S8
    /\ last.hdr.frames = MaxFrames
    /\ last.hdr.channels = 3
    /\ Calls(last.trace, {"sf_readf_short"}) # <<>>
    /\ Calls(last.trace, {"alBufferData"}) # <<>>

====
